---- MODULE Spec2Model ----
(***************************************************************************)
(* Model of drivers/soc/qcom/hyp_core_ctl.c: the hypervisor core control   *)
(* driver.  One kthread (hyp_core_ctl_thread) runs the reservation state   *)
(* machine; hyp_core_ctl_enable (sysfs) and the two CPU hotplug callbacks  *)
(* run concurrently with it.  Every action is one statement (or one run of *)
(* statements that touch only locals) of the source, so that all the       *)
(* interleavings of the unlocked accesses are present.                     *)
(***************************************************************************)
EXTENDS Integers, FiniteSets, Sequences, TLC

\* Number of possible CPUs of the modelled machine (CPU ids 0..NCpu-1).
NCpu == 3

CPUS == 0 .. (NCpu - 1)

\* CPU 0, the boot CPU, stays in service; every other CPU can be hotplugged.
HotplugCpus == CPUS \ {0}

\* CONFIG_QCOM_HYP_CORE_CTL_RESERVE_CPUS as parsed at init: hcd->reserve_cpus.
reserve_cpus == {1, 2}

VARIABLES
    \* struct hyp_core_ctl_data
    lock,                 \* holder of hcd->lock: "free", "worker", "hp", "enable"
    pending,              \* hcd->pending
    reservation_enabled,  \* hcd->reservation_enabled
    our_isolated_cpus,    \* hcd->our_isolated_cpus
    final_reserved_cpus,  \* hcd->final_reserved_cpus
    \* the kthread hcd->task
    task_state,           \* "RUNNING" or "INTERRUPTIBLE"
    should_stop,          \* kthread_should_stop()
    wpc,                  \* position of hyp_core_ctl_thread
    iter_cpus,            \* local of hyp_core_ctl_do_reservation
    offline_cpus,         \* local of hyp_core_ctl_do_reservation
    temp_reserved_cpus,   \* local of hyp_core_ctl_do_reservation
    i,                    \* loop cursor of the for_each_cpu loops (-1 before the first)
    \* environment
    cpu_online_mask,      \* CPUs in service
    the_hcd,              \* TRUE once hyp_core_ctl_init has published the_hcd
    ipc,                  \* position of hyp_core_ctl_init after kthread_run
    hpc,                  \* position of the (serialized) hotplug operation
    hp_cpu,               \* the CPU the hotplug operation is about (-1: none)
    epc,                  \* position of hyp_core_ctl_enable
    enable,               \* argument of hyp_core_ctl_enable (FALSE outside a call)
    \* history variables (observations only, never read by the program)
    cycleCalls,           \* CPUs the engine called (un)isolate on in this cycle
    cycleFailed,          \* CPUs whose (un)isolate call failed in this cycle
    evt,                  \* a hotplug step or an effective toggle since cycle start
    prevQuiet,            \* the last cycle was do_reservation, and no hotplug
                          \* step or effective toggle since it began
    prevFailed,           \* prevQuiet, and a sched_isolate_cpu call of it failed
    offCall,              \* hp_offline call in progress: "isolated" if its cpu was
                          \* in our_isolated_cpus at the call, "unisolated" once it
                          \* has called sched_unisolate_cpu_unlocked, else "none"
    failedCpus,           \* CPUs with a failed sched_isolate_cpu call that were
                          \* not isolated by us since, online and with the
                          \* reservation enabled since
    offReserved,          \* CPUs un-isolated by hp_offline, offline and enabled since
    cameOnline,           \* CPUs whose hp_online was delivered while enabled, online since
    ourIsolation          \* CPUs with a successful sched_isolate_cpu call of this
                          \* driver that no successful sched_unisolate_cpu call
                          \* (or sched_unisolate_cpu_unlocked call) has answered

prog == <<lock, pending, reservation_enabled, our_isolated_cpus,
          final_reserved_cpus, task_state, should_stop>>
wloc == <<wpc, iter_cpus, offline_cpus, temp_reserved_cpus, i>>
env  == <<cpu_online_mask, the_hcd, ipc, hpc, hp_cpu, epc, enable>>
hist == <<cycleCalls, cycleFailed, evt, prevQuiet, prevFailed, offCall,
          failedCpus, offReserved, cameOnline, ourIsolation>>
vars == <<prog, wloc, env, hist>>

\* the thread is inside hyp_core_ctl_do_reservation or _undo_reservation
InCycle ==
    wpc \in {"do_start", "do_loop", "do_isolate", "do_set", "do_or",
             "do_finalize", "do_end", "undo_start", "undo_loop",
             "undo_unisolate", "undo_clear", "undo_end"}

\* cpumask_next(n, mask): the first CPU of mask above n, NCpu if none.
cpumask_next(n, mask) ==
    IF \E c \in mask : c > n
    THEN CHOOSE c \in mask : c > n /\ \A d \in mask : d > n => c <= d
    ELSE NCpu

\* hyp_core_ctl_init up to kthread_run: kzalloc'ed state, thread started.
Init ==
    /\ lock = "free"
    /\ pending = FALSE
    /\ reservation_enabled = FALSE
    /\ our_isolated_cpus = {}
    /\ final_reserved_cpus = {}
    /\ task_state = "RUNNING"
    /\ should_stop = FALSE
    /\ wpc = "lock"
    /\ iter_cpus = {}
    /\ offline_cpus = {}
    /\ temp_reserved_cpus = {}
    /\ i = -1
    /\ cpu_online_mask \in {m \in SUBSET CPUS : 0 \in m}
    /\ the_hcd = FALSE
    /\ ipc = "sysfs"
    /\ hpc = "idle"
    /\ hp_cpu = -1
    /\ epc = "idle"
    /\ enable = FALSE
    /\ cycleCalls = {}
    /\ cycleFailed = {}
    /\ evt = FALSE
    /\ prevQuiet = FALSE
    /\ prevFailed = FALSE
    /\ offCall = "none"
    /\ failedCpus = {}
    /\ offReserved = {}
    /\ cameOnline = {}
    /\ ourIsolation = {}


(***************************************************************************)
(* hyp_core_ctl_thread: the wait loop.                                     *)
(***************************************************************************)

\* line 131: spin_lock(&hcd->lock)
thread_lock ==
    /\ wpc = "lock" /\ lock = "free"
    /\ lock' = "worker" /\ wpc' = "check"
    /\ UNCHANGED <<pending, reservation_enabled, our_isolated_cpus,
                   final_reserved_cpus, task_state, should_stop>>
    /\ UNCHANGED <<iter_cpus, offline_cpus, temp_reserved_cpus, i>>
    /\ UNCHANGED <<env, hist>>

\* Mutant: the thread goes to sleep without looking at pending.
thread_check_always_sleep ==
    /\ wpc = "check"
    /\ wpc' = "set_intr"
    /\ UNCHANGED <<prog, iter_cpus, offline_cpus, temp_reserved_cpus, i, env, hist>>

\* line 132: if (!hcd->pending)
thread_check ==
    /\ wpc = "check"
    /\ wpc' = IF pending THEN "clear" ELSE "set_intr"
    /\ UNCHANGED <<prog, iter_cpus, offline_cpus, temp_reserved_cpus, i, env, hist>>

\* line 133: set_current_state(TASK_INTERRUPTIBLE)
thread_set_intr ==
    /\ wpc = "set_intr"
    /\ task_state' = "INTERRUPTIBLE" /\ wpc' = "unlock_sleep"
    /\ UNCHANGED <<lock, pending, reservation_enabled, our_isolated_cpus,
                   final_reserved_cpus, should_stop>>
    /\ UNCHANGED <<iter_cpus, offline_cpus, temp_reserved_cpus, i, env, hist>>

\* line 134: spin_unlock(&hcd->lock)
thread_unlock_sleep ==
    /\ wpc = "unlock_sleep"
    /\ lock' = "free" /\ wpc' = "schedule"
    /\ UNCHANGED <<pending, reservation_enabled, our_isolated_cpus,
                   final_reserved_cpus, task_state, should_stop>>
    /\ UNCHANGED <<iter_cpus, offline_cpus, temp_reserved_cpus, i, env, hist>>

\* Mutant: schedule() returns without a wake-up.
thread_schedule_no_block ==
    /\ wpc = "schedule"
    /\ wpc' = "relock"
    /\ UNCHANGED <<prog, iter_cpus, offline_cpus, temp_reserved_cpus, i, env, hist>>

\* line 136: schedule() returns only once the task is runnable again
thread_schedule ==
    /\ wpc = "schedule" /\ task_state = "RUNNING"
    /\ wpc' = "relock"
    /\ UNCHANGED <<prog, iter_cpus, offline_cpus, temp_reserved_cpus, i, env, hist>>

\* line 138: spin_lock(&hcd->lock)
thread_relock ==
    /\ wpc = "relock" /\ lock = "free"
    /\ lock' = "worker" /\ wpc' = "set_running"
    /\ UNCHANGED <<pending, reservation_enabled, our_isolated_cpus,
                   final_reserved_cpus, task_state, should_stop>>
    /\ UNCHANGED <<iter_cpus, offline_cpus, temp_reserved_cpus, i, env, hist>>

\* line 139: set_current_state(TASK_RUNNING)
thread_set_running ==
    /\ wpc = "set_running"
    /\ task_state' = "RUNNING" /\ wpc' = "clear"
    /\ UNCHANGED <<lock, pending, reservation_enabled, our_isolated_cpus,
                   final_reserved_cpus, should_stop>>
    /\ UNCHANGED <<iter_cpus, offline_cpus, temp_reserved_cpus, i, env, hist>>

\* line 141: hcd->pending = false
thread_clear ==
    /\ wpc = "clear"
    /\ pending' = FALSE /\ wpc' = "unlock"
    /\ UNCHANGED <<lock, reservation_enabled, our_isolated_cpus,
                   final_reserved_cpus, task_state, should_stop>>
    /\ UNCHANGED <<iter_cpus, offline_cpus, temp_reserved_cpus, i, env, hist>>

\* line 142: spin_unlock(&hcd->lock)
thread_unlock ==
    /\ wpc = "unlock"
    /\ lock' = "free" /\ wpc' = "should_stop"
    /\ UNCHANGED <<pending, reservation_enabled, our_isolated_cpus,
                   final_reserved_cpus, task_state, should_stop>>
    /\ UNCHANGED <<iter_cpus, offline_cpus, temp_reserved_cpus, i, env, hist>>

\* lines 144-145: if (kthread_should_stop()) break;
thread_should_stop ==
    /\ wpc = "should_stop"
    /\ wpc' = IF should_stop THEN "exit" ELSE "read_enabled"
    /\ UNCHANGED <<prog, iter_cpus, offline_cpus, temp_reserved_cpus, i, env, hist>>

\* lines 147-150: if (hcd->reservation_enabled) do_reservation else
\* undo_reservation.  reservation_enabled is read without the lock.  An
\* engine cycle starts here.
thread_read_enabled ==
    /\ wpc = "read_enabled"
    /\ wpc' = IF reservation_enabled THEN "do_start" ELSE "undo_start"
    /\ evt' = FALSE
    /\ UNCHANGED <<prog, iter_cpus, offline_cpus, temp_reserved_cpus, i, env>>
    /\ UNCHANGED <<cycleCalls, cycleFailed, prevQuiet, prevFailed, offCall, ourIsolation,
                   failedCpus, offReserved, cameOnline>>

(***************************************************************************)
(* hyp_core_ctl_do_reservation, run by the thread without the lock.        *)
(***************************************************************************)

\* Mutant: the scan set is not restricted to reserve_cpus.
do_reservation_start_all_cpus ==
    /\ wpc = "do_start"
    /\ offline_cpus' = {}
    /\ temp_reserved_cpus' = {}
    /\ iter_cpus' = CPUS \ our_isolated_cpus
    /\ i' = -1
    /\ wpc' = "do_loop"
    /\ UNCHANGED <<prog, env, hist>>

\* Mutant: the scan set still holds the CPUs that are already isolated.
do_reservation_start_no_andnot ==
    /\ wpc = "do_start"
    /\ offline_cpus' = {}
    /\ temp_reserved_cpus' = {}
    /\ iter_cpus' = reserve_cpus
    /\ i' = -1
    /\ wpc' = "do_loop"
    /\ UNCHANGED <<prog, env, hist>>

\* lines 93-104: clear the locals, iter_cpus = reserve_cpus & ~our_isolated_cpus
do_reservation_start ==
    /\ wpc = "do_start"
    /\ offline_cpus' = {}
    /\ temp_reserved_cpus' = {}
    /\ iter_cpus' = reserve_cpus \ our_isolated_cpus
    /\ i' = -1
    /\ wpc' = "do_loop"
    /\ UNCHANGED <<prog, env, hist>>

\* Mutant: the scan walks every CPU instead of iter_cpus.
do_reservation_loop_all_cpus ==
    /\ wpc = "do_loop"
    /\ LET n == cpumask_next(i, CPUS) IN
         /\ i' = n
         /\ IF n >= NCpu
            THEN wpc' = "do_or" /\ offline_cpus' = offline_cpus
            ELSE IF n \notin cpu_online_mask
                 THEN wpc' = "do_loop" /\ offline_cpus' = offline_cpus \cup {n}
                 ELSE wpc' = "do_isolate" /\ offline_cpus' = offline_cpus
    /\ UNCHANGED <<prog, iter_cpus, temp_reserved_cpus, env, hist>>

\* lines 106-110: for_each_cpu(i, &iter_cpus): an offline CPU is recorded in
\* offline_cpus and skipped, an online one goes to sched_isolate_cpu.
do_reservation_loop ==
    /\ wpc = "do_loop"
    /\ LET n == cpumask_next(i, iter_cpus) IN
         /\ i' = n
         /\ IF n >= NCpu
            THEN wpc' = "do_or" /\ offline_cpus' = offline_cpus
            ELSE IF n \notin cpu_online_mask
                 THEN wpc' = "do_loop" /\ offline_cpus' = offline_cpus \cup {n}
                 ELSE wpc' = "do_isolate" /\ offline_cpus' = offline_cpus
    /\ UNCHANGED <<prog, iter_cpus, temp_reserved_cpus, env, hist>>

\* sched_isolate_cpu(cpu) and sched_unisolate_cpu(cpu), the isolation
\* primitives called by the thread, serialize with CPU hotplug: they run
\* only while no hotplug operation is in flight (the hotplug callback has to
\* use the _unlocked variant, line 168).
cpu_maps_update_free == hpc = "idle"

\* sched_isolate_cpu(cpu) may fail on any call, and it cannot isolate a CPU
\* that is not online (lines 100-101).
sched_isolate_cpu(cpu, ok) ==
    /\ cpu_maps_update_free
    /\ ok => cpu \in cpu_online_mask

\* sched_unisolate_cpu(cpu) may fail on any call.
sched_unisolate_cpu(cpu, ok) ==
    /\ cpu_maps_update_free
    /\ ok \in BOOLEAN

\* the outcomes of the isolation primitives: success (TRUE) or failure
Outcomes == BOOLEAN

\* Mutant: a failed sched_isolate_cpu breaks out of the scan.
do_reservation_isolate_break(outcomes) ==
    /\ wpc = "do_isolate"
    /\ \E ok \in outcomes :
         /\ sched_isolate_cpu(i, ok)
         /\ wpc' = IF ok THEN "do_set" ELSE "do_or"
         /\ cycleFailed' = IF ok THEN cycleFailed ELSE cycleFailed \cup {i}
         /\ failedCpus' = IF ok THEN failedCpus ELSE failedCpus \cup {i}
         /\ ourIsolation' = IF ok THEN ourIsolation \cup {i} ELSE ourIsolation
    /\ cycleCalls' = cycleCalls \cup {i}
    /\ UNCHANGED <<prog, iter_cpus, offline_cpus, temp_reserved_cpus, i, env>>
    /\ UNCHANGED <<evt, prevQuiet, prevFailed, offCall, offReserved, cameOnline>>

\* lines 112-116: ret = sched_isolate_cpu(i); if (ret < 0) continue;
do_reservation_isolate(outcomes) ==
    /\ wpc = "do_isolate"
    /\ \E ok \in outcomes :
         /\ sched_isolate_cpu(i, ok)
         /\ wpc' = IF ok THEN "do_set" ELSE "do_loop"
         /\ cycleFailed' = IF ok THEN cycleFailed ELSE cycleFailed \cup {i}
         /\ failedCpus' = IF ok THEN failedCpus ELSE failedCpus \cup {i}
         /\ ourIsolation' = IF ok THEN ourIsolation \cup {i} ELSE ourIsolation
    /\ cycleCalls' = cycleCalls \cup {i}
    /\ UNCHANGED <<prog, iter_cpus, offline_cpus, temp_reserved_cpus, i, env>>
    /\ UNCHANGED <<evt, prevQuiet, prevFailed, offCall, offReserved, cameOnline>>

\* line 117: cpumask_set_cpu(i, &hcd->our_isolated_cpus)
do_reservation_set ==
    /\ wpc = "do_set"
    /\ our_isolated_cpus' = our_isolated_cpus \cup {i}
    /\ wpc' = "do_loop"
    /\ failedCpus' = failedCpus \ {i}
    /\ UNCHANGED <<lock, pending, reservation_enabled, final_reserved_cpus,
                   task_state, should_stop>>
    /\ UNCHANGED <<iter_cpus, offline_cpus, temp_reserved_cpus, i, env>>
    /\ UNCHANGED <<cycleCalls, cycleFailed, evt, prevQuiet, prevFailed, offCall, ourIsolation,
                   offReserved, cameOnline>>

\* Mutant: the offline CPUs are left out of the reserved set.
do_reservation_or_no_offline ==
    /\ wpc = "do_or"
    /\ temp_reserved_cpus' = our_isolated_cpus
    /\ wpc' = "do_finalize"
    /\ UNCHANGED <<prog, iter_cpus, offline_cpus, i, env, hist>>

\* line 120: cpumask_or(&temp_reserved_cpus, &hcd->our_isolated_cpus, &offline_cpus)
do_reservation_or ==
    /\ wpc = "do_or"
    /\ temp_reserved_cpus' = our_isolated_cpus \cup offline_cpus
    /\ wpc' = "do_finalize"
    /\ UNCHANGED <<prog, iter_cpus, offline_cpus, i, env, hist>>

\* lines 80-86 (called at line 121): copy temp unless it equals the old value
finalize_reservation ==
    /\ wpc = "do_finalize"
    /\ final_reserved_cpus' = IF temp_reserved_cpus = final_reserved_cpus
                              THEN final_reserved_cpus
                              ELSE temp_reserved_cpus
    /\ wpc' = "do_end"
    /\ UNCHANGED <<lock, pending, reservation_enabled, our_isolated_cpus,
                   task_state, should_stop>>
    /\ UNCHANGED <<iter_cpus, offline_cpus, temp_reserved_cpus, i, env, hist>>

\* lines 123-124: print_status("reservation_end"), return (the locals die),
\* back to the loop top
do_reservation_end ==
    /\ wpc = "do_end"
    /\ wpc' = "lock"
    /\ iter_cpus' = {} /\ offline_cpus' = {} /\ temp_reserved_cpus' = {} /\ i' = -1
    /\ prevQuiet' = ~evt
    /\ prevFailed' = (~evt /\ cycleFailed # {})
    /\ cycleCalls' = {} /\ cycleFailed' = {} /\ evt' = FALSE
    /\ UNCHANGED <<prog, env, offCall, ourIsolation, failedCpus, offReserved, cameOnline>>

(***************************************************************************)
(* hyp_core_ctl_undo_reservation, run by the thread without the lock.      *)
(***************************************************************************)

\* line 66: print_status("undo_reservation_start")
undo_reservation_start ==
    /\ wpc = "undo_start"
    /\ i' = -1 /\ wpc' = "undo_loop"
    /\ UNCHANGED <<prog, iter_cpus, offline_cpus, temp_reserved_cpus, env, hist>>

\* line 68: for_each_cpu(cpu, &hcd->our_isolated_cpus), on the live mask
undo_reservation_loop ==
    /\ wpc = "undo_loop"
    /\ LET n == cpumask_next(i, our_isolated_cpus) IN
         /\ i' = n
         /\ wpc' = IF n >= NCpu THEN "undo_end" ELSE "undo_unisolate"
    /\ UNCHANGED <<prog, iter_cpus, offline_cpus, temp_reserved_cpus, env, hist>>

\* Mutant: a failed sched_unisolate_cpu ends the walk.
undo_reservation_unisolate_break(outcomes) ==
    /\ wpc = "undo_unisolate"
    /\ \E ok \in outcomes :
         /\ sched_unisolate_cpu(i, ok)
         /\ wpc' = IF ok THEN "undo_clear" ELSE "undo_end"
         /\ cycleFailed' = IF ok THEN cycleFailed ELSE cycleFailed \cup {i}
         /\ ourIsolation' = IF ok THEN ourIsolation \ {i} ELSE ourIsolation
    /\ cycleCalls' = cycleCalls \cup {i}
    /\ UNCHANGED <<prog, iter_cpus, offline_cpus, temp_reserved_cpus, i, env>>
    /\ UNCHANGED <<evt, prevQuiet, prevFailed, offCall, failedCpus, offReserved,
                   cameOnline>>

\* lines 69-73: ret = sched_unisolate_cpu(cpu); if (ret < 0) continue;
undo_reservation_unisolate(outcomes) ==
    /\ wpc = "undo_unisolate"
    /\ \E ok \in outcomes :
         /\ sched_unisolate_cpu(i, ok)
         /\ wpc' = IF ok THEN "undo_clear" ELSE "undo_loop"
         /\ cycleFailed' = IF ok THEN cycleFailed ELSE cycleFailed \cup {i}
         /\ ourIsolation' = IF ok THEN ourIsolation \ {i} ELSE ourIsolation
    /\ cycleCalls' = cycleCalls \cup {i}
    /\ UNCHANGED <<prog, iter_cpus, offline_cpus, temp_reserved_cpus, i, env>>
    /\ UNCHANGED <<evt, prevQuiet, prevFailed, offCall, failedCpus, offReserved,
                   cameOnline>>

\* Mutant: the un-isolated CPU is left in our_isolated_cpus.
undo_reservation_clear_keep ==
    /\ wpc = "undo_clear"
    /\ wpc' = "undo_loop"
    /\ UNCHANGED <<prog, iter_cpus, offline_cpus, temp_reserved_cpus, i, env, hist>>

\* line 74: cpumask_clear_cpu(cpu, &hcd->our_isolated_cpus)
undo_reservation_clear ==
    /\ wpc = "undo_clear"
    /\ our_isolated_cpus' = our_isolated_cpus \ {i}
    /\ wpc' = "undo_loop"
    /\ UNCHANGED <<lock, pending, reservation_enabled, final_reserved_cpus,
                   task_state, should_stop>>
    /\ UNCHANGED <<iter_cpus, offline_cpus, temp_reserved_cpus, i, env, hist>>

\* lines 77-78: print_status("undo_reservation_end"), back to the loop top
undo_reservation_end ==
    /\ wpc = "undo_end"
    /\ wpc' = "lock"
    /\ i' = -1
    /\ prevQuiet' = FALSE /\ prevFailed' = FALSE
    /\ cycleCalls' = {} /\ cycleFailed' = {} /\ evt' = FALSE
    /\ UNCHANGED <<prog, iter_cpus, offline_cpus, temp_reserved_cpus, env>>
    /\ UNCHANGED <<offCall, ourIsolation, failedCpus, offReserved, cameOnline>>

hyp_core_ctl_do_reservation(outcomes) ==
    \/ do_reservation_start \/ do_reservation_loop
    \/ do_reservation_isolate(outcomes)
    \/ do_reservation_set \/ do_reservation_or \/ finalize_reservation
    \/ do_reservation_end

hyp_core_ctl_undo_reservation(outcomes) ==
    \/ undo_reservation_start \/ undo_reservation_loop
    \/ undo_reservation_unisolate(outcomes) \/ undo_reservation_clear
    \/ undo_reservation_end

\* outcomes: what sched_isolate_cpu may return; undo_outcomes: what
\* sched_unisolate_cpu may return
hyp_core_ctl_thread(outcomes, undo_outcomes) ==
    \/ thread_lock \/ thread_check \/ thread_set_intr \/ thread_unlock_sleep
    \/ thread_schedule \/ thread_relock \/ thread_set_running \/ thread_clear
    \/ thread_unlock \/ thread_should_stop \/ thread_read_enabled
    \/ hyp_core_ctl_do_reservation(outcomes)
    \/ hyp_core_ctl_undo_reservation(undo_outcomes)


(***************************************************************************)
(* hyp_core_ctl_init after kthread_run, and kthread_stop on its error path *)
(***************************************************************************)

\* lines 274-275: sysfs_create_group succeeded
init_sysfs_ok ==
    /\ ipc = "sysfs"
    /\ ipc' = "hooks"
    /\ UNCHANGED <<prog, wloc, cpu_online_mask, the_hcd, hpc, hp_cpu, epc, enable, hist>>

\* lines 276-279, 293: sysfs_create_group failed, kthread_stop(hcd->task)
\* first requests the stop ...
init_stop_task ==
    /\ ipc = "sysfs"
    /\ should_stop' = TRUE
    /\ ipc' = "stop_wake"
    /\ UNCHANGED <<lock, pending, reservation_enabled, our_isolated_cpus,
                   final_reserved_cpus, task_state>>
    /\ UNCHANGED <<wloc, cpu_online_mask, the_hcd, hpc, hp_cpu, epc, enable, hist>>

\* ... and then wakes the thread
kthread_stop_wake ==
    /\ ipc = "stop_wake"
    /\ task_state' = "RUNNING"
    /\ ipc' = "failed"
    /\ UNCHANGED <<lock, pending, reservation_enabled, our_isolated_cpus,
                   final_reserved_cpus, should_stop>>
    /\ UNCHANGED <<wloc, cpu_online_mask, the_hcd, hpc, hp_cpu, epc, enable, hist>>

\* lines 281-287: the hotplug callbacks are registered (cpuhp_setup_state
\* waits for a hotplug operation in flight)
init_setup_hotplug ==
    /\ ipc = "hooks" /\ hpc = "idle"
    /\ ipc' = "publish"
    /\ UNCHANGED <<prog, wloc, cpu_online_mask, the_hcd, hpc, hp_cpu, epc, enable, hist>>

\* line 289: the_hcd = hcd
init_publish ==
    /\ ipc = "publish"
    /\ the_hcd' = TRUE
    /\ ipc' = "done"
    /\ UNCHANGED <<prog, wloc, cpu_online_mask, hpc, hp_cpu, epc, enable, hist>>

hyp_core_ctl_init ==
    \/ init_sysfs_ok \/ init_stop_task \/ kthread_stop_wake
    \/ init_setup_hotplug \/ init_publish

\* the callbacks run only once cpuhp_setup_state_nocalls has installed them
hooks_installed == ipc \in {"publish", "done"}

(***************************************************************************)
(* CPU hotplug.  Hotplug operations are serialized; the offline callback   *)
(* runs before the CPU leaves service, the online callback after the CPU   *)
(* has entered service.                                                    *)
(***************************************************************************)

\* a CPU starts going offline
cpu_down(c) ==
    /\ hpc = "idle"
    /\ c \in cpu_online_mask
    /\ hp_cpu' = c
    /\ hpc' = IF hooks_installed THEN "off_check" ELSE "off_done"
    /\ offCall' = IF hooks_installed /\ c \in our_isolated_cpus
                  THEN "isolated" ELSE "none"
    /\ ourIsolation' = ourIsolation
    /\ evt' = InCycle /\ prevQuiet' = FALSE /\ prevFailed' = FALSE
    /\ UNCHANGED <<prog, wloc, cpu_online_mask, the_hcd, ipc, epc, enable>>
    /\ UNCHANGED <<cycleCalls, cycleFailed, failedCpus, offReserved, cameOnline>>

\* the CPU leaves service after its offline callbacks have returned
cpu_down_finish ==
    /\ hpc = "off_done"
    /\ cpu_online_mask' = cpu_online_mask \ {hp_cpu}
    /\ hpc' = "idle"
    /\ evt' = InCycle /\ prevQuiet' = FALSE /\ prevFailed' = FALSE
    /\ cameOnline' = cameOnline \ {hp_cpu}
    /\ failedCpus' = failedCpus \ {hp_cpu}
    /\ offCall' = "none"
    /\ ourIsolation' = ourIsolation
    /\ hp_cpu' = -1
    /\ UNCHANGED <<prog, wloc, the_hcd, ipc, epc, enable>>
    /\ UNCHANGED <<cycleCalls, cycleFailed, offReserved>>

\* a CPU enters service, then its online callbacks run
cpu_up(c) ==
    /\ hpc = "idle"
    /\ c \in CPUS \ cpu_online_mask
    /\ cpu_online_mask' = cpu_online_mask \cup {c}
    /\ hp_cpu' = IF hooks_installed THEN c ELSE -1
    /\ hpc' = IF hooks_installed THEN "on_check" ELSE "idle"
    /\ evt' = InCycle /\ prevQuiet' = FALSE /\ prevFailed' = FALSE
    /\ offReserved' = offReserved \ {c}
    /\ UNCHANGED <<prog, wloc, the_hcd, ipc, epc, enable>>
    /\ UNCHANGED <<offCall, ourIsolation, cycleCalls, cycleFailed, failedCpus, cameOnline>>

hotplug ==
    \/ \E c \in HotplugCpus : cpu_down(c)
    \/ cpu_down_finish
    \/ \E c \in HotplugCpus : cpu_up(c)

(***************************************************************************)
(* hyp_core_ctl_hp_offline(cpu): no lock is taken.                         *)
(***************************************************************************)

\* Mutant: the callback does not look at reservation_enabled.
hp_offline_check_ignore_enabled ==
    /\ hpc = "off_check"
    /\ hpc' = IF ~the_hcd THEN "off_done" ELSE "off_tac"
    /\ evt' = InCycle /\ prevQuiet' = FALSE /\ prevFailed' = FALSE
    /\ UNCHANGED <<prog, wloc, cpu_online_mask, the_hcd, ipc, hp_cpu, epc, enable>>
    /\ UNCHANGED <<offCall, ourIsolation, cycleCalls, cycleFailed, failedCpus, offReserved, cameOnline>>

\* lines 158-159: if (!the_hcd || !the_hcd->reservation_enabled) return 0;
hp_offline_check ==
    /\ hpc = "off_check"
    /\ hpc' = IF ~the_hcd \/ ~reservation_enabled THEN "off_done" ELSE "off_tac"
    /\ evt' = InCycle /\ prevQuiet' = FALSE /\ prevFailed' = FALSE
    /\ UNCHANGED <<prog, wloc, cpu_online_mask, the_hcd, ipc, hp_cpu, epc, enable>>
    /\ UNCHANGED <<offCall, ourIsolation, cycleCalls, cycleFailed, failedCpus, offReserved, cameOnline>>

\* line 167: if (cpumask_test_and_clear_cpu(cpu, &the_hcd->our_isolated_cpus))
hp_offline_test_and_clear ==
    /\ hpc = "off_tac"
    /\ our_isolated_cpus' = our_isolated_cpus \ {hp_cpu}
    /\ hpc' = IF hp_cpu \in our_isolated_cpus THEN "off_unisolate" ELSE "off_done"
    /\ evt' = InCycle /\ prevQuiet' = FALSE /\ prevFailed' = FALSE
    /\ offReserved' = IF hp_cpu \in our_isolated_cpus /\ reservation_enabled
                      THEN offReserved \cup {hp_cpu} ELSE offReserved
    /\ UNCHANGED <<lock, pending, reservation_enabled, final_reserved_cpus,
                   task_state, should_stop>>
    /\ UNCHANGED <<wloc, cpu_online_mask, the_hcd, ipc, hp_cpu, epc, enable>>
    /\ UNCHANGED <<offCall, ourIsolation, cycleCalls, cycleFailed, failedCpus, cameOnline>>

\* line 168: sched_unisolate_cpu_unlocked(cpu), result ignored
hp_offline_unisolate ==
    /\ hpc = "off_unisolate"
    /\ hpc' = "off_done"
    /\ offCall' = IF offCall = "isolated" THEN "unisolated" ELSE offCall
    /\ ourIsolation' = ourIsolation \ {hp_cpu}
    /\ evt' = InCycle /\ prevQuiet' = FALSE /\ prevFailed' = FALSE
    /\ UNCHANGED <<prog, wloc, cpu_online_mask, the_hcd, ipc, hp_cpu, epc, enable>>
    /\ UNCHANGED <<cycleCalls, cycleFailed, failedCpus, offReserved, cameOnline>>

hyp_core_ctl_hp_offline ==
    \/ hp_offline_check \/ hp_offline_test_and_clear \/ hp_offline_unisolate

(***************************************************************************)
(* hyp_core_ctl_hp_online(cpu)                                             *)
(***************************************************************************)

\* lines 175-176: if (!the_hcd || !the_hcd->reservation_enabled) return 0;
hp_online_check ==
    /\ hpc = "on_check"
    /\ IF ~the_hcd \/ ~reservation_enabled
       THEN hpc' = "idle" /\ hp_cpu' = -1
       ELSE hpc' = "on_lock" /\ hp_cpu' = hp_cpu
    /\ evt' = InCycle /\ prevQuiet' = FALSE /\ prevFailed' = FALSE
    /\ UNCHANGED <<prog, wloc, cpu_online_mask, the_hcd, ipc, epc, enable>>
    /\ UNCHANGED <<offCall, ourIsolation, cycleCalls, cycleFailed, failedCpus, offReserved, cameOnline>>

\* line 182: spin_lock(&the_hcd->lock)
hp_online_lock ==
    /\ hpc = "on_lock" /\ lock = "free"
    /\ lock' = "hp" /\ hpc' = "on_test"
    /\ evt' = InCycle /\ prevQuiet' = FALSE /\ prevFailed' = FALSE
    /\ UNCHANGED <<pending, reservation_enabled, our_isolated_cpus,
                   final_reserved_cpus, task_state, should_stop>>
    /\ UNCHANGED <<wloc, cpu_online_mask, the_hcd, ipc, hp_cpu, epc, enable>>
    /\ UNCHANGED <<offCall, ourIsolation, cycleCalls, cycleFailed, failedCpus, offReserved, cameOnline>>

\* line 183: if (cpumask_test_cpu(cpu, &the_hcd->final_reserved_cpus))
hp_online_test ==
    /\ hpc = "on_test"
    /\ hpc' = IF hp_cpu \in final_reserved_cpus THEN "on_pending" ELSE "on_unlock"
    /\ evt' = InCycle /\ prevQuiet' = FALSE /\ prevFailed' = FALSE
    /\ UNCHANGED <<prog, wloc, cpu_online_mask, the_hcd, ipc, hp_cpu, epc, enable>>
    /\ UNCHANGED <<offCall, ourIsolation, cycleCalls, cycleFailed, failedCpus, offReserved, cameOnline>>

\* line 184: the_hcd->pending = true
hp_online_pending ==
    /\ hpc = "on_pending"
    /\ pending' = TRUE /\ hpc' = "on_wake"
    /\ evt' = InCycle /\ prevQuiet' = FALSE /\ prevFailed' = FALSE
    /\ UNCHANGED <<lock, reservation_enabled, our_isolated_cpus,
                   final_reserved_cpus, task_state, should_stop>>
    /\ UNCHANGED <<wloc, cpu_online_mask, the_hcd, ipc, hp_cpu, epc, enable>>
    /\ UNCHANGED <<offCall, ourIsolation, cycleCalls, cycleFailed, failedCpus, offReserved, cameOnline>>

\* line 185: wake_up_process(the_hcd->task)
hp_online_wake ==
    /\ hpc = "on_wake"
    /\ task_state' = "RUNNING" /\ hpc' = "on_unlock"
    /\ evt' = InCycle /\ prevQuiet' = FALSE /\ prevFailed' = FALSE
    /\ UNCHANGED <<lock, pending, reservation_enabled, our_isolated_cpus,
                   final_reserved_cpus, should_stop>>
    /\ UNCHANGED <<wloc, cpu_online_mask, the_hcd, ipc, hp_cpu, epc, enable>>
    /\ UNCHANGED <<offCall, ourIsolation, cycleCalls, cycleFailed, failedCpus, offReserved, cameOnline>>

\* lines 187-189: spin_unlock(&the_hcd->lock); return 0;
hp_online_unlock ==
    /\ hpc = "on_unlock"
    /\ lock' = "free" /\ hpc' = "idle"
    /\ evt' = InCycle /\ prevQuiet' = FALSE /\ prevFailed' = FALSE
    /\ cameOnline' = IF hp_cpu \in reserve_cpus /\ reservation_enabled
                     THEN cameOnline \cup {hp_cpu} ELSE cameOnline
    /\ hp_cpu' = -1
    /\ UNCHANGED <<pending, reservation_enabled, our_isolated_cpus,
                   final_reserved_cpus, task_state, should_stop>>
    /\ UNCHANGED <<wloc, cpu_online_mask, the_hcd, ipc, epc, enable>>
    /\ UNCHANGED <<offCall, ourIsolation, cycleCalls, cycleFailed, failedCpus, offReserved>>

hyp_core_ctl_hp_online ==
    \/ hp_online_check \/ hp_online_lock \/ hp_online_test
    \/ hp_online_pending \/ hp_online_wake \/ hp_online_unlock

(***************************************************************************)
(* hyp_core_ctl_enable(enable), reached from enable_store once the_hcd is  *)
(* published.                                                              *)
(***************************************************************************)

\* line 194: spin_lock(&the_hcd->lock)
enable_lock(x) ==
    /\ epc = "idle" /\ the_hcd /\ lock = "free"
    /\ lock' = "enable" /\ enable' = x /\ epc' = "check"
    /\ UNCHANGED <<pending, reservation_enabled, our_isolated_cpus,
                   final_reserved_cpus, task_state, should_stop>>
    /\ UNCHANGED <<wloc, cpu_online_mask, the_hcd, ipc, hpc, hp_cpu, hist>>

\* Mutant: the early exit for an unchanged value is missing.
enable_check_no_goto ==
    /\ epc = "check"
    /\ epc' = "set"
    /\ UNCHANGED <<prog, wloc, cpu_online_mask, the_hcd, ipc, hpc, hp_cpu, enable, hist>>

\* lines 195-196: if (enable == the_hcd->reservation_enabled) goto out;
enable_check ==
    /\ epc = "check"
    /\ epc' = IF enable = reservation_enabled THEN "out" ELSE "set"
    /\ UNCHANGED <<prog, wloc, cpu_online_mask, the_hcd, ipc, hpc, hp_cpu, enable, hist>>

\* line 201: the_hcd->reservation_enabled = enable
enable_set ==
    /\ epc = "set"
    /\ reservation_enabled' = enable /\ epc' = "pending"
    /\ evt' = InCycle /\ prevQuiet' = FALSE /\ prevFailed' = FALSE
    /\ offReserved' = IF enable THEN offReserved ELSE {}
    /\ cameOnline' = IF enable THEN cameOnline ELSE {}
    /\ failedCpus' = IF enable THEN failedCpus ELSE {}
    /\ UNCHANGED <<lock, pending, our_isolated_cpus, final_reserved_cpus,
                   task_state, should_stop>>
    /\ UNCHANGED <<wloc, cpu_online_mask, the_hcd, ipc, hpc, hp_cpu, enable>>
    /\ UNCHANGED <<offCall, ourIsolation, cycleCalls, cycleFailed>>

\* line 202: the_hcd->pending = true
enable_pending ==
    /\ epc = "pending"
    /\ pending' = TRUE /\ epc' = "wake"
    /\ UNCHANGED <<lock, reservation_enabled, our_isolated_cpus,
                   final_reserved_cpus, task_state, should_stop>>
    /\ UNCHANGED <<wloc, cpu_online_mask, the_hcd, ipc, hpc, hp_cpu, enable, hist>>

\* line 203: wake_up_process(the_hcd->task)
enable_wake ==
    /\ epc = "wake"
    /\ task_state' = "RUNNING" /\ epc' = "unlock"
    /\ UNCHANGED <<lock, pending, reservation_enabled, our_isolated_cpus,
                   final_reserved_cpus, should_stop>>
    /\ UNCHANGED <<wloc, cpu_online_mask, the_hcd, ipc, hpc, hp_cpu, enable, hist>>

\* lines 204-206: out: spin_unlock(&the_hcd->lock), reached by the goto
\* ("out") or by falling through ("unlock")
enable_unlock ==
    /\ epc \in {"out", "unlock"}
    /\ lock' = "free" /\ epc' = "idle" /\ enable' = FALSE
    /\ UNCHANGED <<pending, reservation_enabled, our_isolated_cpus,
                   final_reserved_cpus, task_state, should_stop>>
    /\ UNCHANGED <<wloc, cpu_online_mask, the_hcd, ipc, hpc, hp_cpu, hist>>

hyp_core_ctl_enable ==
    \/ \E x \in BOOLEAN : enable_lock(x)
    \/ enable_check \/ enable_set \/ enable_pending \/ enable_wake
    \/ enable_unlock

Next ==
    \/ hyp_core_ctl_init
    \/ hyp_core_ctl_thread(Outcomes, Outcomes)
    \/ hotplug
    \/ hyp_core_ctl_hp_offline
    \/ hyp_core_ctl_hp_online
    \/ hyp_core_ctl_enable

Spec == Init /\ [][Next]_vars

\* The same program when every sched_isolate_cpu call on an online CPU
\* succeeds (sched_unisolate_cpu may still fail).
NextNoFail ==
    \/ hyp_core_ctl_init
    \/ hyp_core_ctl_thread({TRUE}, Outcomes)
    \/ hotplug
    \/ hyp_core_ctl_hp_offline
    \/ hyp_core_ctl_hp_online
    \/ hyp_core_ctl_enable

SpecNoFail == Init /\ [][NextNoFail]_vars

\* The same program when every sched_unisolate_cpu call of the thread
\* succeeds (sched_isolate_cpu may still fail).
NextUndoNoFail ==
    \/ hyp_core_ctl_init
    \/ hyp_core_ctl_thread(Outcomes, {TRUE})
    \/ hotplug
    \/ hyp_core_ctl_hp_offline
    \/ hyp_core_ctl_hp_online
    \/ hyp_core_ctl_enable

SpecUndoNoFail == Init /\ [][NextUndoNoFail]_vars

(***************************************************************************)
(* Properties                                                              *)
(***************************************************************************)

\* the reserve CPUs that are not in service
OfflineReserved == reserve_cpus \ cpu_online_mask

\* nothing is running and nothing is pending: the thread is blocked in
\* schedule() and stays there until a new toggle or hotplug event
Quiescent ==
    /\ ipc = "done" /\ hpc = "idle" /\ epc = "idle"
    /\ wpc = "schedule" /\ task_state = "INTERRUPTIBLE" /\ ~pending

\* C1 (as stated): in every reachable state final_reserved_cpus equals
\* our_isolated_cpus united with the reserve CPUs that are offline.
C1_EveryState ==
    final_reserved_cpus = our_isolated_cpus \cup OfflineReserved

\* C1 (amended): when a do_reservation cycle has run finalize_reservation
\* and no hotplug step and no effective toggle happened since the cycle
\* began, final_reserved_cpus equals our_isolated_cpus united with the
\* reserve CPUs that are offline.
C1_AtCycleEnd ==
    (wpc = "do_end" /\ ~evt) =>
        final_reserved_cpus = our_isolated_cpus \cup OfflineReserved

C1_Witness ==
    /\ wpc = "do_end" /\ ~evt
    /\ our_isolated_cpus # {} /\ OfflineReserved # {}
    /\ final_reserved_cpus = reserve_cpus

\* C2: our_isolated_cpus is always a subset of reserve_cpus.
C2_IsolatedWithinReserve ==
    our_isolated_cpus \subseteq reserve_cpus

C2_Witness ==
    our_isolated_cpus = reserve_cpus /\ 0 \in cpu_online_mask

\* C3: every CPU of our_isolated_cpus is online (a CPU that has left
\* service is never a member of our_isolated_cpus).
C3_IsolatedAreOnline ==
    our_isolated_cpus \subseteq cpu_online_mask

\* C4: when hyp_core_ctl_hp_offline(cpu) was called with cpu in
\* our_isolated_cpus, then at its return sched_unisolate_cpu_unlocked(cpu)
\* has been called and cpu is not in our_isolated_cpus.
C4_OfflineUnisolates ==
    (hpc = "off_done" /\ offCall # "none") =>
        (offCall = "unisolated" /\ hp_cpu \notin our_isolated_cpus)

\* C5: a CPU that hyp_core_ctl_hp_offline un-isolated while the reservation
\* was enabled is in final_reserved_cpus for as long as it stays offline
\* and the reservation stays enabled (stated for the states where nothing is
\* running, so that a scan the event overlapped has finished).
C5_OfflineStaysReserved ==
    Quiescent =>
        \A c \in offReserved : c \notin cpu_online_mask => c \in final_reserved_cpus

\* C6: with the reservation enabled and sched_isolate_cpu always succeeding,
\* a reserve CPU whose online callback was delivered and that stayed online
\* is a member of our_isolated_cpus once the thread has no more work (the
\* thread blocked with nothing pending isolates nothing until a new event).
C6_OnlineIsReisolated ==
    (Quiescent /\ reservation_enabled) =>
        \A c \in cameOnline : c \in our_isolated_cpus

\* C7: a do_reservation cycle during which the online set did not change
\* and every sched_isolate_cpu call succeeded ends with our_isolated_cpus
\* equal to the reserve CPUs that are online.
C7_Convergence ==
    (wpc = "do_end" /\ ~evt /\ cycleFailed = {}) =>
        our_isolated_cpus = reserve_cpus \cap cpu_online_mask

\* C8 (as stated): when do_reservation runs twice in a row with no hotplug
\* step and no effective toggle since the first run began, the second run
\* calls neither sched_isolate_cpu nor sched_unisolate_cpu.
C8_SecondRunSilent ==
    (wpc = "do_end" /\ prevQuiet /\ ~evt) => cycleCalls = {}

\* C8 (amended): the same, provided every sched_isolate_cpu call of the
\* first run succeeded.
C8_SecondRunSilentAfterSuccess ==
    (wpc = "do_end" /\ prevQuiet /\ ~prevFailed /\ ~evt) => cycleCalls = {}

C8_Witness ==
    /\ wpc = "do_end" /\ prevQuiet /\ ~prevFailed /\ ~evt
    /\ our_isolated_cpus # {} /\ cycleCalls = {}

\* C9: a CPU whose sched_isolate_cpu call failed is not in
\* our_isolated_cpus at the end of that cycle; it stays in the set every
\* later do_reservation cycle scans, and every do_reservation cycle calls
\* sched_isolate_cpu on each CPU of its scan set that it finds online.
C9_RetryOnFailure ==
    /\ wpc = "do_end" => cycleFailed \cap our_isolated_cpus = {}
    /\ wpc \in {"do_loop", "do_isolate", "do_set", "do_or", "do_finalize", "do_end"}
          => failedCpus \subseteq iter_cpus
    /\ wpc = "do_end" => iter_cpus \subseteq (cycleCalls \cup offline_cpus)

C9_Witness ==
    /\ wpc = "do_set" /\ i \in failedCpus /\ i \notin cycleFailed
    /\ i \in cycleCalls /\ reservation_enabled /\ i \in cpu_online_mask

\* C10: a call hyp_core_ctl_enable(x) that finds reservation_enabled = x
\* takes the goto, and none of its steps changes reservation_enabled,
\* pending, our_isolated_cpus, final_reserved_cpus, the task state (no
\* wake-up) or the position of the thread (no engine invocation).
C10_ToggleNoop ==
    [][ /\ (epc = "check" /\ enable = reservation_enabled /\ epc' # epc)
           => epc' = "out"
        /\ ((epc \in {"check", "out"} /\ enable = reservation_enabled /\ epc' # epc)
             \/ (epc = "idle" /\ epc' = "check" /\ enable' = reservation_enabled))
           => UNCHANGED <<reservation_enabled, pending, our_isolated_cpus,
                          final_reserved_cpus, task_state, wpc>>
      ]_vars

C10_Witness ==
    epc = "out" /\ task_state = "INTERRUPTIBLE" /\ ~pending /\ wpc = "schedule"

C12_NoLostWakeup ==
    (pending /\ wpc \in {"unlock_sleep", "schedule"} /\ task_state = "INTERRUPTIBLE")
        => (epc = "wake" \/ hpc = "on_wake")

C12_Witness ==
    /\ pending /\ wpc = "schedule" /\ task_state = "RUNNING"
    /\ epc = "idle" /\ hpc = "idle" /\ lock = "free" /\ ~should_stop

\* C13: once kthread_stop has requested the stop and woken the thread, the
\* thread is not blocked in schedule(): it goes on to line 144 and leaves
\* the loop.
C13_StopTerminates ==
    ~(ipc = "failed" /\ should_stop /\ wpc = "schedule" /\ task_state = "INTERRUPTIBLE")

\* C14: a thread whose next step reads or writes reservation_enabled,
\* pending, our_isolated_cpus or final_reserved_cpus holds hcd->lock: the
\* kthread at lines 132, 141, 147, 104, 117, 120, 121, 68 and 74, the
\* hotplug callbacks at lines 158-159, 167, 175-176, 183 and 184, and
\* hyp_core_ctl_enable at lines 195, 201 and 202.
C14_LockDiscipline ==
    /\ wpc \in {"check", "clear", "read_enabled", "do_start", "do_set", "do_or",
                "do_finalize", "undo_loop", "undo_clear"} => lock = "worker"
    /\ (hpc \in {"off_check", "on_check"} /\ the_hcd) => lock = "hp"
    /\ hpc \in {"off_tac", "on_test", "on_pending"} => lock = "hp"
    /\ epc \in {"check", "set", "pending"} => lock = "enable"

\* C15: hyp_core_ctl_hp_offline is never between its test-and-clear of a
\* CPU (line 167) and the end of its unisolate call (line 168) while the
\* kthread is between its sched_isolate_cpu / sched_unisolate_cpu call on
\* that CPU and the update of our_isolated_cpus (lines 112-117, 69-74).
C15_WritersExclusive ==
    ~(/\ hpc \in {"off_tac", "off_unisolate"}
      /\ wpc \in {"do_set", "undo_clear"}
      /\ hp_cpu = i)

\* C16: a failed call never aborts the cycle.  A do_reservation cycle calls
\* sched_isolate_cpu once, and not twice, on every CPU of its scan set
\* (reserve_cpus minus our_isolated_cpus at the start of the cycle) that it
\* found online, and a failed call is followed by the rest of the scan; an
\* undo_reservation cycle calls sched_unisolate_cpu at most once per CPU and
\* ends with every CPU still in our_isolated_cpus having had its (failed)
\* call; a failing call leaves our_isolated_cpus as it was.
C16_FailureDoesNotAbort ==
    [][ /\ (wpc \in {"do_isolate", "undo_unisolate"} /\ wpc' # wpc)
           => i \notin cycleCalls
        /\ (wpc = "do_isolate" /\ wpc' # "do_set" /\ wpc' # wpc)
           => (wpc' = "do_loop" /\ UNCHANGED our_isolated_cpus)
        /\ (wpc = "undo_unisolate" /\ wpc' # "undo_clear" /\ wpc' # wpc)
           => (wpc' = "undo_loop" /\ UNCHANGED our_isolated_cpus)
        /\ wpc' = "do_end"
           => /\ iter_cpus' = cycleCalls' \cup offline_cpus'
              /\ cycleCalls' \cap offline_cpus' = {}
              /\ cycleFailed' \cap our_isolated_cpus' = {}
        /\ wpc' = "undo_end" => our_isolated_cpus' \subseteq cycleFailed'
      ]_vars

C16_Witness ==
    /\ wpc = "do_end" /\ iter_cpus = {1, 2} /\ cycleCalls = {1, 2}
    /\ cycleFailed = {1} /\ our_isolated_cpus = {2}

\* C17: no busy retry.  pending is set only by a producer signal (lines
\* 184, 202) and cleared only at line 141, which the thread runs once before
\* each engine cycle; unless a stop was requested, the thread leaves
\* schedule() and reaches line 141 only with pending set.  Each engine cycle
\* therefore consumes at least one producer signal of its own, so the
\* cycles never outnumber the signals, and after a cycle that got nowhere
\* the thread blocks until the next signal.
C17_NoBusyRetry ==
    (/\ \/ wpc = "schedule" /\ task_state = "RUNNING"
        \/ wpc \in {"relock", "set_running", "clear"}
     /\ ~should_stop)
        => pending

C17_Witness ==
    /\ Quiescent /\ reservation_enabled
    /\ failedCpus # {} /\ failedCpus \subseteq cpu_online_mask

C19_UnisolateBalanced ==
    /\ wpc = "undo_unisolate" => i \in ourIsolation
    /\ hpc = "off_unisolate" => hp_cpu \in ourIsolation

\* C20: in every reachable state final_reserved_cpus is a subset of
\* reserve_cpus (and so is the set finalize_reservation is about to copy).
C20_FinalWithinReserve ==
    /\ final_reserved_cpus \subseteq reserve_cpus
    /\ temp_reserved_cpus \subseteq reserve_cpus

C20_Witness ==
    /\ wpc = "do_end" /\ final_reserved_cpus = reserve_cpus
    /\ our_isolated_cpus = {1} /\ offline_cpus = {2}

====
